---- MODULE Spec2Model ----
(***************************************************************************)
(* A model of telegram-notify-bot: the Lambda handler (src/handler.ts),    *)
(* the Telegram dispatcher sendMessage (src/telegram.ts) and the SSM       *)
(* parameter cache getParameter / getTelegramConfig (src/ssm-client.ts).   *)
(*                                                                         *)
(* Representation of JavaScript values:                                    *)
(*  - short strings (chat ids, the bot token, parameter values) are        *)
(*    sequences of one-character strings; the empty sequence stands for    *)
(*    every falsy value (undefined, null, "");                             *)
(*  - a message text is a record of lengths: `lead` whitespace units,      *)
(*    `core` units that start and end with a non-blank one, `trail`        *)
(*    whitespace units, with `kind` telling a string from undefined and    *)
(*    from a non-string value and `what` telling whose content it is;      *)
(*  - an error message is a sequence of phrases, so that                   *)
(*    message.includes('Parameter Store') is computed on its content.      *)
(***************************************************************************)
EXTENDS Integers, Sequences, FiniteSets, TLC

VARIABLES
  now,             \* Date.now(), in ms
  envSteps,        \* how many times the clock or the remote store changed
  store,           \* the remote Parameter Store: key -> [status, value]
  parameterCache,  \* the Map of ssm-client.ts: key -> entry
  calls,           \* the getParameter calls: finished ones of the current
                   \* operation and every one whose remote call is in flight
  sends,           \* the sendMessage invocations of the current operation
  sm,              \* the running sendMessage call
  log,             \* the outbound requests, responses and sleeps of that call
  hpc,             \* the handler's position
  event,           \* the event of the request being handled
  config,          \* the handler's `config`
  joinError,       \* the rejection of Promise.all of getTelegramConfig
  response,        \* the handler's returned response
  reqNo            \* number of the current operation (request or direct read)

cacheVars == <<now, envSteps, store, parameterCache, calls>>
sendVars == <<sends, sm, log>>
handlerVars == <<hpc, event, config, joinError, response, reqNo>>
vars == <<now, envSteps, store, parameterCache, calls, sends, sm, log,
          hpc, event, config, joinError, response, reqNo>>

(***************************************************************************)
(* Bounds of the model.                                                    *)
(***************************************************************************)
MaxEnvSteps == 3
MaxHandlerEnvSteps == 1
MaxRequests == 2
MaxReads == 3
MaxParseLen == 4

(***************************************************************************)
(* Strings.                                                                *)
(***************************************************************************)
Whitespace == {" ", "\t"}

RECURSIVE TrimStart(_)
TrimStart(s) ==
  IF s # <<>> /\ Head(s) \in Whitespace THEN TrimStart(Tail(s)) ELSE s

RECURSIVE TrimEnd(_)
TrimEnd(s) ==
  IF s # <<>> /\ s[Len(s)] \in Whitespace
  THEN TrimEnd(SubSeq(s, 1, Len(s) - 1)) ELSE s

\* String.prototype.trim on a character sequence
TrimChars(s) == TrimEnd(TrimStart(s))

\* String.prototype.split(sep) on a character sequence
RECURSIVE SplitAcc(_, _, _, _)
SplitAcc(s, sep, cur, acc) ==
  IF s = <<>> THEN Append(acc, cur)
  ELSE IF Head(s) = sep THEN SplitAcc(Tail(s), sep, <<>>, Append(acc, cur))
  ELSE SplitAcc(Tail(s), sep, Append(cur, Head(s)), acc)

Split(s, sep) == SplitAcc(s, sep, <<>>, <<>>)

\* Array.prototype.filter(Boolean) on an array of strings
RECURSIVE FilterNonEmpty(_)
FilterNonEmpty(xs) ==
  IF xs = <<>> THEN <<>>
  ELSE IF Head(xs) = <<>> THEN FilterNonEmpty(Tail(xs))
  ELSE <<Head(xs)>> \o FilterNonEmpty(Tail(xs))

\* Array.prototype.includes
Includes(xs, x) == \E i \in DOMAIN xs : xs[i] = x

Digits == <<"0", "1", "2", "3", "4", "5", "6", "7", "8", "9">>

RECURSIVE NatToString(_)
NatToString(n) ==
  IF n < 10 THEN <<Digits[n + 1]>>
  ELSE NatToString(n \div 10) \o <<Digits[(n % 10) + 1]>>

\* Number.prototype.toString for an integer
toString(n) == IF n < 0 THEN <<"-">> \o NatToString(-n) ELSE NatToString(n)

RECURSIVE Pow2(_)
Pow2(n) == IF n = 0 THEN 1 ELSE 2 * Pow2(n - 1)

(***************************************************************************)
(* Message texts.                                                          *)
(***************************************************************************)
Str(what, lead, core, trail) ==
  [kind |-> "str", what |-> what, lead |-> lead, core |-> core, trail |-> trail]

UndefinedText == [kind |-> "undefined", what |-> "none", lead |-> 0, core |-> 0, trail |-> 0]
NonStringText == [kind |-> "nonstring", what |-> "none", lead |-> 0, core |-> 0, trail |-> 0]

StrLen(t) == t.lead + t.core + t.trail

\* the text taken as it came
NoTrim(t) == t

\* String.prototype.trim on a message text
Trim(t) == [t EXCEPT !.lead = 0, !.trail = 0]

\* !text || typeof text !== 'string'
NoValidText(t) == t.kind # "str" \/ StrLen(t) = 0

(***************************************************************************)
(* The dispatcher: sendMessage.                                            *)
(***************************************************************************)
MAX_RETRIES == 2
BASE_BACKOFF_MS == 500
TelegramLimit == 4096

NoError == <<>>
FailedToSend == <<"Failed to send message">>
MessageTooLong == <<"Message too long">>
NoBotToken == <<"Bot token is not provided">>
NoChatId == <<"chat_id is required">>
UnknownError == <<"Unknown error">>
\* body.json() rejecting on a body that is not JSON
JsonSyntaxError == <<"Unexpected token < in JSON">>

isRetryable(statusCode) == statusCode = 429 \/ statusCode >= 500

\* statusCode >= 400 && statusCode < 500 && statusCode !== 429
IsClientError(statusCode) ==
  statusCode >= 400 /\ statusCode < 500 /\ statusCode # 429

\* BASE_BACKOFF_MS * Math.pow(2, attempt)
Backoff(attempt) == BASE_BACKOFF_MS * Pow2(attempt)

\* a delay that takes retry_after for milliseconds
RetryDelayInMs(statusCode, body, attempt) ==
  IF statusCode = 429 /\ body.numericHint
  THEN body.retry_after
  ELSE Backoff(attempt)

\* the delay of a retryable response
RetryDelay(statusCode, body, attempt) ==
  IF statusCode = 429 /\ body.numericHint
  THEN body.retry_after * 1000
  ELSE Backoff(attempt)

\* the events of the log
NoChars == <<>>
NoDescription == <<>>
NoBody ==
  [json |-> FALSE, numericHint |-> FALSE, retry_after |-> 0,
   description |-> NoDescription]

RequestEvent(chatId, text, attempt) ==
  [type |-> "request", attempt |-> attempt, chat_id |-> chatId, text |-> text,
   status |-> 0, body |-> NoBody, err |-> NoError, ms |-> 0]

ResponseEvent(statusCode, body, attempt) ==
  [type |-> "response", attempt |-> attempt, chat_id |-> NoChars,
   text |-> UndefinedText, status |-> statusCode, body |-> body,
   err |-> NoError, ms |-> 0]

NetworkErrorEvent(msg, attempt) ==
  [type |-> "neterror", attempt |-> attempt, chat_id |-> NoChars,
   text |-> UndefinedText, status |-> 0, body |-> NoBody, err |-> msg, ms |-> 0]

SleepEvent(ms, attempt) ==
  [type |-> "sleep", attempt |-> attempt, chat_id |-> NoChars,
   text |-> UndefinedText, status |-> 0, body |-> NoBody, err |-> NoError,
   ms |-> ms]

IdleSend ==
  [pc |-> "idle", text |-> UndefinedText, chatId |-> NoChars,
   botToken |-> NoChars, attempt |-> 0, lastError |-> NoError,
   outcome |-> "none", error |-> NoError]

\* a length check that rejects the limit itself: text.length >= 4096
PreconditionAtLimit(text, chatId, botToken) ==
  IF NoValidText(text) THEN "return"
  ELSE IF StrLen(text) >= TelegramLimit THEN "too long"
  ELSE IF botToken = <<>> THEN "no token"
  ELSE IF chatId = <<>> THEN "no chat"
  ELSE "pass"

\* the chat id checked before the bot token
PreconditionChatFirst(text, chatId, botToken) ==
  IF NoValidText(text) THEN "return"
  ELSE IF StrLen(text) > TelegramLimit THEN "too long"
  ELSE IF chatId = <<>> THEN "no chat"
  ELSE IF botToken = <<>> THEN "no token"
  ELSE "pass"

\* the preconditions of sendMessage, in their order
Precondition(text, chatId, botToken) ==
  IF NoValidText(text) THEN "return"
  ELSE IF StrLen(text) > TelegramLimit THEN "too long"
  ELSE IF botToken = <<>> THEN "no token"
  ELSE IF chatId = <<>> THEN "no chat"
  ELSE "pass"

Returned(s, lg) ==
  [sm |-> [s EXCEPT !.pc = "done", !.outcome = "returned"], log |-> lg]

Threw(s, lg, msg) ==
  [sm |-> [s EXCEPT !.pc = "done", !.outcome = "threw", !.error = msg],
   log |-> lg]

\* await request(url, ...) of the attempt s.attempt
IssueRequest(s, lg) ==
  [sm |-> [s EXCEPT !.pc = "request"],
   log |-> Append(lg, RequestEvent(s.chatId, s.text, s.attempt))]

\* a loop that tests attempt <= MAX_RETRIES + 1
NextAttemptOneMore(s, lg) ==
  IF s.attempt + 1 <= MAX_RETRIES + 1
  THEN IssueRequest([s EXCEPT !.attempt = s.attempt + 1], lg)
  ELSE Threw(s, lg, IF s.lastError = NoError THEN FailedToSend ELSE s.lastError)

\* attempt++ and the loop test; after the loop, throw lastError ?? new Error
NextAttempt(s, lg) ==
  IF s.attempt + 1 <= MAX_RETRIES
  THEN IssueRequest([s EXCEPT !.attempt = s.attempt + 1], lg)
  ELSE Threw(s, lg, IF s.lastError = NoError THEN FailedToSend ELSE s.lastError)

\* await sleep(ms); continue
Sleep(s, lg, ms) ==
  [sm |-> [s EXCEPT !.pc = "sleep"],
   log |-> Append(lg, SleepEvent(ms, s.attempt))]

\* a catch block that keeps the first error: lastError ??= error
CatchKeepsFirst(s, lg, msg) ==
  LET s1 == [s EXCEPT !.lastError = IF s.lastError = NoError THEN msg ELSE s.lastError]
  IN  IF s.attempt < MAX_RETRIES /\ msg # FailedToSend
      THEN Sleep(s1, lg, Backoff(s.attempt))
      ELSE NextAttempt(s1, lg)

\* the catch block of the loop body
Catch(s, lg, msg) ==
  LET s1 == [s EXCEPT !.lastError = msg]
  IN  IF s.attempt < MAX_RETRIES /\ msg # FailedToSend
      THEN Sleep(s1, lg, Backoff(s.attempt))
      ELSE NextAttempt(s1, lg)

\* the try block of the loop body once request() has resolved
OnResponse(s, lg, statusCode, body) ==
  IF statusCode = 200 THEN Returned(s, lg)
  ELSE IF ~body.json THEN Catch(s, lg, JsonSyntaxError)
  ELSE IF IsClientError(statusCode) THEN Catch(s, lg, FailedToSend)
  ELSE IF isRetryable(statusCode) /\ s.attempt < MAX_RETRIES
  THEN Sleep(s, lg, RetryDelay(statusCode, body, s.attempt))
  ELSE NextAttempt([s EXCEPT !.lastError = FailedToSend], lg)

\* sendMessage up to its first await
StartSend(text, chatId, botToken) ==
  LET s == [IdleSend EXCEPT !.text = text, !.chatId = chatId,
                            !.botToken = botToken]
      pre == Precondition(text, chatId, botToken)
  IN  CASE pre = "return" -> Returned(s, <<>>)
        [] pre = "too long" -> Threw(s, <<>>, MessageTooLong)
        [] pre = "no token" -> Threw(s, <<>>, NoBotToken)
        [] pre = "no chat" -> Threw(s, <<>>, NoChatId)
        [] OTHER -> IssueRequest(s, <<>>)

\* what the remote side can answer
Statuses == {200, 302, 400, 429, 500}
RetryAfters == {2, 20}
Descriptions ==
  {<<"Bad Request: chat not found">>,
   <<"Forbidden: bot was blocked by the user">>}
Bodies ==
  {NoBody}
  \cup {[json |-> TRUE, numericHint |-> FALSE, retry_after |-> 0,
          description |-> d] : d \in Descriptions}
  \cup {[json |-> TRUE, numericHint |-> TRUE, retry_after |-> r,
          description |-> <<"Too Many Requests: retry later">>] : r \in RetryAfters}
NetworkErrors == {<<"ETIMEDOUT">>, <<"getaddrinfo ENOTFOUND">>, UnknownError}

\* request() resolves with a status and a body
SendReceive(statusCode, body) ==
  /\ sm.pc = "request"
  /\ LET r == OnResponse(sm, Append(log, ResponseEvent(statusCode, body, sm.attempt)),
                         statusCode, body)
     IN  sm' = r.sm /\ log' = r.log
  /\ UNCHANGED <<cacheVars, handlerVars, sends>>

\* request() rejects (a thrown non-Error gives 'Unknown error')
SendNetworkError(msg) ==
  /\ sm.pc = "request"
  /\ LET r == Catch(sm, Append(log, NetworkErrorEvent(msg, sm.attempt)), msg)
     IN  sm' = r.sm /\ log' = r.log
  /\ UNCHANGED <<cacheVars, handlerVars, sends>>

\* sleep() resolves: continue
SendWake ==
  /\ sm.pc = "sleep"
  /\ LET r == NextAttempt(sm, log)
     IN  sm' = r.sm /\ log' = r.log
  /\ UNCHANGED <<cacheVars, handlerVars, sends>>

(***************************************************************************)
(* The configuration cache: getParameter and getTelegramConfig.            *)
(***************************************************************************)
CACHE_TTL_MS == 3600000

BotToken == "/telegram-notify-bot/bot-token"
AdminChatId == "/telegram-notify-bot/admin-chat-id"
AdditionalChatIds == "/telegram-notify-bot/additional-chat-ids"
Keys == {BotToken, AdminChatId, AdditionalChatIds}
KeyOrder == <<BotToken, AdminChatId, AdditionalChatIds>>

Description(key) ==
  CASE key = BotToken -> "Telegram bot token"
    [] key = AdminChatId -> "Admin chat ID"
    [] OTHER -> "Additional chat IDs"

\* the errors getParameter raises
NotFoundMessage(key) ==
  <<"Configuration error:", Description(key), "not found in", "Parameter Store",
    key, "Please ensure the parameter exists and Lambda has SSM permissions.">>

AccessDeniedMessage(key) ==
  <<"Permission error: Lambda function cannot access", Description(key), key,
    "Please check IAM role has ssm:GetParameter and kms:Decrypt permissions.">>

FetchFailedMessage(key, original) ==
  <<"Failed to fetch", Description(key), "from", "Parameter Store">> \o original

NoValueMessage(key) == <<"Parameter", key, "exists but has no value">>

NoEntry == [present |-> FALSE, value |-> NoChars, expiresAt |-> 0]

\* an entry served up to and at its expiry: Date.now() <= entry.expiresAt
FreshAtExpiry(entry, t) == entry.present /\ t <= entry.expiresAt

\* entry && Date.now() < entry.expiresAt
Fresh(entry, t) == entry.present /\ t < entry.expiresAt

\* a getCachedValue that sweeps the Map: every entry that has expired is deleted
AfterGetCachedValueSweep(cache, key, t) ==
  [k \in DOMAIN cache |-> IF Fresh(cache[k], t) THEN cache[k] ELSE NoEntry]

\* getCachedValue: the Map after the call (an entry that is not served is deleted)
AfterGetCachedValue(cache, key, t) ==
  IF Fresh(cache[key], t) THEN cache ELSE [cache EXCEPT ![key] = NoEntry]

\* setCachedValue
setCachedValue(cache, key, value, t) ==
  [cache EXCEPT ![key] =
     [present |-> TRUE, value |-> value, expiresAt |-> t + CACHE_TTL_MS]]

\* the answer to a command that the remote store has not worked on yet
NoAnswer == [status |-> "none", value |-> <<>>]

\* a getParameter call: what getCachedValue found ("fresh", "expired", "absent"),
\* how many commands it sent, how it settled, and the answer that is on its
\* way back to it
Call(owner, key, found, state, value, error, fetches) ==
  [owner |-> owner, key |-> key, found |-> found, state |-> state,
   value |-> value, error |-> error, fetches |-> fetches, answer |-> NoAnswer]

\* getParameter up to its first await: a hit returns, a miss sends the command
BeginGetParameter(cache, cs, owner, key, t) ==
  [cache |-> AfterGetCachedValue(cache, key, t),
   calls |-> cs \cup
     {IF Fresh(cache[key], t)
      THEN Call(owner, key, "fresh", "ok", cache[key].value, NoError, 0)
      ELSE Call(owner, key, IF cache[key].present THEN "expired" ELSE "absent",
                "pending", NoChars, NoError, 1)}]

\* the error getParameter raises for what ssmClient.send did
ErrorOfFetch(key, entry) ==
  CASE entry.status = "ParameterNotFound" -> NotFoundMessage(key)
    [] entry.status = "AccessDeniedException" -> AccessDeniedMessage(key)
    [] entry.status = "ServiceError" ->
         FetchFailedMessage(key, <<"Rate exceeded">>)
    [] OTHER -> FetchFailedMessage(key, NoValueMessage(key))

\* !response.Parameter?.Value is false: the command gave a value
FetchSucceeds(entry) == entry.status = "ok" /\ entry.value # <<>>

\* the call once ssmClient.send has settled on `entry`
FinishedCall(c, entry) ==
  IF FetchSucceeds(entry)
  THEN [c EXCEPT !.state = "ok", !.value = entry.value, !.answer = NoAnswer]
  ELSE [c EXCEPT !.state = "failed", !.error = ErrorOfFetch(c.key, entry),
                 !.answer = NoAnswer]

\* a Map that is written before the answer is looked at
CacheAfterFetchAlways(cache, key, entry, t) ==
  setCachedValue(cache, key, entry.value, t)

\* the Map once ssmClient.send has settled on `entry`
CacheAfterFetch(cache, key, entry, t) ==
  IF FetchSucceeds(entry) THEN setCachedValue(cache, key, entry.value, t)
  ELSE cache

\* a parse that filters the pieces without trimming them
ParseUntrimmedPieces(s) ==
  IF s = <<"n", "o", "n", "e">> \/ TrimChars(s) = <<>> THEN <<>>
  ELSE FilterNonEmpty(Split(s, ","))

\* the parsing of the additional chat ids in getTelegramConfig
ParseAdditionalChatIds(s) ==
  IF s = <<"n", "o", "n", "e">> \/ TrimChars(s) = <<>> THEN <<>>
  ELSE FilterNonEmpty([i \in DOMAIN Split(s, ",") |-> TrimChars(Split(s, ",")[i])])

\* the call of `owner` for `key`
CallOf(cs, owner, key) == CHOOSE c \in cs : c.owner = owner /\ c.key = key

\* a join that is fulfilled by the first read to be fulfilled
AnyRead(cs, owner) ==
  \E k \in Keys : \E c \in cs : c.owner = owner /\ c.key = k /\ c.state = "ok"

\* Promise.all of the three reads is fulfilled
AllRead(cs, owner) ==
  \A k \in Keys : \E c \in cs : c.owner = owner /\ c.key = k /\ c.state = "ok"

\* the snapshot getTelegramConfig returns
Snapshot(cs, owner) ==
  [botToken |-> CallOf(cs, owner, BotToken).value,
   adminChatId |-> CallOf(cs, owner, AdminChatId).value,
   additionalChatIds |->
     ParseAdditionalChatIds(CallOf(cs, owner, AdditionalChatIds).value)]

\* the remote store
StoreEntry(status, value) == [status |-> status, value |-> value]
FailureStatuses == {"ParameterNotFound", "AccessDeniedException", "ServiceError"}
StoreValues(key) ==
  CASE key = BotToken -> {<<"T">>, <<"U">>}
    [] key = AdminChatId -> {<<"1">>}
    [] OTHER -> {<<"n", "o", "n", "e">>, <<" ", "2", ",", "-", "2", " ", ",">>}
StoreEntries(key) ==
  {StoreEntry(f, NoChars) : f \in FailureStatuses}
  \cup {StoreEntry("ok", NoChars)}
  \cup {StoreEntry("ok", v) : v \in StoreValues(key)}

\* time passes
Tick(d) ==
  /\ envSteps < MaxEnvSteps
  /\ now' = now + d
  /\ envSteps' = envSteps + 1
  /\ UNCHANGED <<store, parameterCache, calls, sendVars, handlerVars>>

TickSteps == {1, CACHE_TTL_MS - 1}

\* the commands for `key` that the remote store has not worked on yet
Unanswered(cs, key) ==
  {c \in cs : c.key = key /\ c.state = "pending" /\ c.answer = NoAnswer}

\* the remote store has worked on the commands of the calls in `served`:
\* their answers, made of the entries as they are now, are on their way
Answered(cs, served, st) ==
  {IF c \in served THEN [c EXCEPT !.answer = st[c.key]] ELSE c : c \in cs}

\* what ssmClient.send of the call c settles on: the answer on its way, or
\* the entry as it is when the remote store works on the command only now
AnswerOf(c, st) == IF c.answer = NoAnswer THEN st[c.key] ELSE c.answer

\* an operator changes a parameter in the remote store, or the store's health
\* changes; the commands it worked on before have their answers already
StoreChange(key, entry) ==
  /\ envSteps < MaxEnvSteps
  /\ entry # store[key]
  /\ store' = [store EXCEPT ![key] = entry]
  /\ \E served \in SUBSET Unanswered(calls, key) :
       calls' = Answered(calls, served, store)
  /\ envSteps' = envSteps + 1
  /\ UNCHANGED <<now, parameterCache, sendVars, handlerVars>>

\* the remote store stops answering: every command is rejected
StoreOutage ==
  /\ envSteps < MaxEnvSteps
  /\ \E k \in Keys : store[k].status # "ServiceError"
  /\ store' = [k \in Keys |-> StoreEntry("ServiceError", NoChars)]
  /\ \E served \in SUBSET UNION {Unanswered(calls, k) : k \in Keys} :
       calls' = Answered(calls, served, store)
  /\ envSteps' = envSteps + 1
  /\ UNCHANGED <<now, parameterCache, sendVars, handlerVars>>

\* ssmClient.send of the call c settles; the rest of getParameter runs
FetchComplete(c) ==
  /\ c \in calls
  /\ c.state = "pending"
  /\ parameterCache' =
       CacheAfterFetch(parameterCache, c.key, AnswerOf(c, store), now)
  /\ calls' = (calls \ {c}) \cup {FinishedCall(c, AnswerOf(c, store))}
  /\ joinError' =
       IF hpc = "config" /\ c.owner = reqNo /\ joinError = NoError
          /\ ~FetchSucceeds(AnswerOf(c, store))
       THEN ErrorOfFetch(c.key, AnswerOf(c, store))
       ELSE joinError
  /\ UNCHANGED <<now, envSteps, store, sendVars, hpc, event, config,
                 response, reqNo>>

\* the calls that outlive an operation: those whose remote call is in flight
InFlight(cs) == {c \in cs : c.state = "pending"}

\* a direct getParameter(key) call on the process
GetParameter(key) ==
  /\ hpc = "idle"
  /\ reqNo < MaxReads
  /\ reqNo' = reqNo + 1
  /\ LET r == BeginGetParameter(parameterCache, InFlight(calls), reqNo + 1, key, now)
     IN  parameterCache' = r.cache /\ calls' = r.calls
  /\ UNCHANGED <<now, envSteps, store, sendVars, hpc, event, config,
                 joinError, response>>

(***************************************************************************)
(* The request handler.                                                    *)
(***************************************************************************)
MaxBodyLength == 10000
\* the shortest body that carries a text: {"message":{"text":""}}
EnvelopeLength == 23
\* new Date().toISOString()
IsoTimeLength == 24
\* the fixed parts of the two alert templates, in UTF-16 units
WebhookAlertLength == 92
DirectAlertLength == 78
\* 'Unknown' and 'no-username'
UnknownLength == 7
NoUsernameLength == 11

NoFrom == [first_name |-> 0, last_name |-> 0, username |-> 0]

\* an event: the body (absent, not a string, or a string of bodyLength units)
\* and what parseJson gives for it; chatId is message.chat.id, 0 when the
\* payload has none, and hasChatId tells a chat.id of 0 from none
Event(bodyKind, bodyLength, json, hasMessage, text, chatId, chat_id, from) ==
  [bodyKind |-> bodyKind, bodyLength |-> bodyLength, json |-> json,
   hasMessage |-> hasMessage, text |-> text, hasChatId |-> chatId # 0,
   chatId |-> chatId, chat_id |-> chat_id, from |-> from]

NoEvent == Event("missing", 0, "malformed", FALSE, UndefinedText, 0, NoChars, NoFrom)

Response(statusCode, key, text, chat_id) ==
  [statusCode |-> statusCode, key |-> key, text |-> text, chat_id |-> chat_id]

NoResponse == Response(0, "", "", NoChars)
NoConfig == [botToken |-> NoChars, adminChatId |-> NoChars, additionalChatIds |-> <<>>]

\* error.message.includes('Parameter Store')
IncludesParameterStore(message) == Includes(message, "Parameter Store")

\* a catch block that answers with the message of the error
CatchResponseWithMessage(message) ==
  Response(500, "error", IF message = <<>> THEN "Unknown error" ELSE Head(message),
           NoChars)

\* the catch block of the handler
CatchResponse(message) ==
  IF IncludesParameterStore(message)
  THEN Response(500, "error", "Server configuration error - check logs", NoChars)
  ELSE Response(500, "error", "Internal server error", NoChars)

\* [config.adminChatId, ...config.additionalChatIds]
AuthorizedChatIds(cfg) == <<cfg.adminChatId>> \o cfg.additionalChatIds

\* the alert of the webhook path
WebhookAlert(ev, targetChatId) ==
  Str("webhook alert", 0,
      WebhookAlertLength + Len(targetChatId)
      + (IF ev.from.first_name = 0 THEN UnknownLength ELSE ev.from.first_name)
      + ev.from.last_name
      + (IF ev.from.username = 0 THEN NoUsernameLength ELSE ev.from.username)
      + StrLen(ev.text) + IsoTimeLength,
      0)

\* the alert of the direct path
DirectAlert(ev, targetChatId) ==
  Str("direct alert", 0,
      DirectAlertLength + Len(targetChatId) + StrLen(ev.text) + IsoTimeLength, 0)

Respond(r) == [kind |-> "respond", response |-> r, phase |-> "idle",
               text |-> UndefinedText, chatId |-> NoChars]
Send(phase, text, chatId) ==
  [kind |-> "send", response |-> NoResponse, phase |-> phase, text |-> text,
   chatId |-> chatId]

TypeErrorMessage == <<"Cannot read properties of null (reading 'message')">>
ParseErrorMessage == <<"Unexpected token in JSON">>

\* body.message.chat?.id is truthy: the webhook path
IsWebhook(ev) == ev.hasChatId /\ ev.chatId # 0

\* body.chat_id is truthy: the direct path
IsDirect(ev) == ev.chat_id # <<>>

\* !authorizedChatIds.includes(targetChatId)
Unauthorized(cfg, targetChatId) == ~Includes(AuthorizedChatIds(cfg), targetChatId)

\* chat_id looked at before chat.id
RouteDirectFirst(ev, cfg) ==
  IF IsDirect(ev)
  THEN IF Unauthorized(cfg, ev.chat_id)
       THEN Send("alertDirect", DirectAlert(ev, ev.chat_id), cfg.adminChatId)
       ELSE Send("dispatch", Trim(ev.text), ev.chat_id)
  ELSE IF IsWebhook(ev)
  THEN IF Unauthorized(cfg, toString(ev.chatId))
       THEN Send("alertWebhook", WebhookAlert(ev, toString(ev.chatId)), cfg.adminChatId)
       ELSE Send("dispatch", Trim(ev.text), toString(ev.chatId))
  ELSE Respond(Response(400, "error", "chat_id is required", NoChars))

\* the direct path without its authorization check
RouteDirectUnchecked(ev, cfg) ==
  IF IsWebhook(ev)
  THEN IF Unauthorized(cfg, toString(ev.chatId))
       THEN Send("alertWebhook", WebhookAlert(ev, toString(ev.chatId)), cfg.adminChatId)
       ELSE Send("dispatch", Trim(ev.text), toString(ev.chatId))
  ELSE IF IsDirect(ev)
  THEN Send("dispatch", Trim(ev.text), ev.chat_id)
  ELSE Respond(Response(400, "error", "chat_id is required", NoChars))

\* alerts that go back to the chat the request came from
RouteAlertsRequester(ev, cfg) ==
  IF IsWebhook(ev)
  THEN IF Unauthorized(cfg, toString(ev.chatId))
       THEN Send("alertWebhook", WebhookAlert(ev, toString(ev.chatId)),
                 toString(ev.chatId))
       ELSE Send("dispatch", Trim(ev.text), toString(ev.chatId))
  ELSE IF IsDirect(ev)
  THEN IF Unauthorized(cfg, ev.chat_id)
       THEN Send("alertDirect", DirectAlert(ev, ev.chat_id), ev.chat_id)
       ELSE Send("dispatch", Trim(ev.text), ev.chat_id)
  ELSE Respond(Response(400, "error", "chat_id is required", NoChars))

\* the destination resolution and authorization of a valid message
Route(ev, cfg) ==
  IF IsWebhook(ev)
  THEN IF Unauthorized(cfg, toString(ev.chatId))
       THEN Send("alertWebhook", WebhookAlert(ev, toString(ev.chatId)), cfg.adminChatId)
       ELSE Send("dispatch", Trim(ev.text), toString(ev.chatId))
  ELSE IF IsDirect(ev)
  THEN IF Unauthorized(cfg, ev.chat_id)
       THEN Send("alertDirect", DirectAlert(ev, ev.chat_id), cfg.adminChatId)
       ELSE Send("dispatch", Trim(ev.text), ev.chat_id)
  ELSE Respond(Response(400, "error", "chat_id is required", NoChars))

\* parseJson(event.body): raises on a body that is no JSON, gives the parsed
\* value (null or a payload) otherwise
parseJson(ev) == IF ev.json = "malformed" THEN "throws" ELSE ev.json

\* a handler that tests the length of the text as it came
ValidateUntrimmed(ev, cfg) ==
  IF ev.bodyKind # "str" \/ ev.bodyLength = 0
  THEN Respond(Response(400, "error", "Invalid request", NoChars))
  ELSE IF ev.bodyLength > MaxBodyLength
  THEN Respond(Response(413, "error", "Request too large", NoChars))
  ELSE IF parseJson(ev) = "throws" THEN Respond(CatchResponse(ParseErrorMessage))
  ELSE IF parseJson(ev) = "null" THEN Respond(CatchResponse(TypeErrorMessage))
  ELSE IF ~ev.hasMessage \/ NoValidText(ev.text)
  THEN Respond(Response(200, "message", "No action taken", NoChars))
  ELSE IF StrLen(ev.text) = 0
  THEN Respond(Response(200, "message", "Empty message ignored", NoChars))
  ELSE Route(ev, cfg)

\* the handler from the validation of the event to its first sendMessage or return
Validate(ev, cfg) ==
  IF ev.bodyKind # "str" \/ ev.bodyLength = 0
  THEN Respond(Response(400, "error", "Invalid request", NoChars))
  ELSE IF ev.bodyLength > MaxBodyLength
  THEN Respond(Response(413, "error", "Request too large", NoChars))
  ELSE IF parseJson(ev) = "throws" THEN Respond(CatchResponse(ParseErrorMessage))
  ELSE IF parseJson(ev) = "null" THEN Respond(CatchResponse(TypeErrorMessage))
  ELSE IF ~ev.hasMessage \/ NoValidText(ev.text)
  THEN Respond(Response(200, "message", "No action taken", NoChars))
  ELSE IF StrLen(Trim(ev.text)) = 0
  THEN Respond(Response(200, "message", "Empty message ignored", NoChars))
  ELSE Route(ev, cfg)

\* both rejections answered as the direct path answers
AfterSendForbidden(phase, s) ==
  CASE phase \in {"alertWebhook", "alertDirect"} ->
         Response(403, "error", "Unauthorized chat_id", NoChars)
    [] OTHER ->
         IF s.outcome = "threw" THEN CatchResponse(s.error)
         ELSE Response(200, "message", "Message sent successfully", s.chatId)

\* a failed delivery answered as a gateway failure
AfterSendBadGateway(phase, s) ==
  CASE phase = "alertWebhook" -> Response(200, "message", "Unauthorized", NoChars)
    [] phase = "alertDirect" -> Response(403, "error", "Unauthorized chat_id", NoChars)
    [] OTHER ->
         IF s.outcome = "threw" THEN Response(502, "error", "Bad gateway", NoChars)
         ELSE Response(200, "message", "Message sent successfully", s.chatId)

\* an alert sent outside any try block: its failure reaches the catch block
AfterSendPropagates(phase, s) ==
  IF s.outcome = "threw" THEN CatchResponse(s.error)
  ELSE CASE phase = "alertWebhook" -> Response(200, "message", "Unauthorized", NoChars)
         [] phase = "alertDirect" -> Response(403, "error", "Unauthorized chat_id", NoChars)
         [] OTHER -> Response(200, "message", "Message sent successfully", s.chatId)

\* a success answer that echoes the credential the message was sent with
AfterSendEchoesToken(phase, s) ==
  CASE phase = "alertWebhook" -> Response(200, "message", "Unauthorized", NoChars)
    [] phase = "alertDirect" -> Response(403, "error", "Unauthorized chat_id", NoChars)
    [] OTHER ->
         IF s.outcome = "threw" THEN CatchResponse(s.error)
         ELSE Response(200, "message", "Message sent successfully", s.botToken)

\* the response once the awaited sendMessage has settled
AfterSend(phase, s) ==
  CASE phase = "alertWebhook" -> Response(200, "message", "Unauthorized", NoChars)
    [] phase = "alertDirect" -> Response(403, "error", "Unauthorized chat_id", NoChars)
    [] OTHER ->
         IF s.outcome = "threw" THEN CatchResponse(s.error)
         ELSE Response(200, "message", "Message sent successfully", s.chatId)

\* the three getParameter calls of getTelegramConfig, begun in order
RECURSIVE BeginAll(_, _, _, _, _)
BeginAll(cache, cs, owner, keys, t) ==
  IF keys = <<>> THEN [cache |-> cache, calls |-> cs]
  ELSE LET r == BeginGetParameter(cache, cs, owner, Head(keys), t)
       IN  BeginAll(r.cache, r.calls, owner, Tail(keys), t)

\* the events a client can send
ShortText == Str("text", 1, 2, 1)
SendableTexts == {ShortText, Str("text", 1, 4096, 1), Str("text", 0, 4097, 0)}
IgnoredTexts ==
  {UndefinedText, NonStringText, Str("text", 0, 0, 0), Str("text", 1, 0, 0)}
\* chat.id and chat_id: neither, one of them, both
Targets ==
  {<<0, NoChars>>, <<0, <<"1">> >>, <<0, <<"3">> >>, <<0, <<"-", "2">> >>,
   <<1, NoChars>>, <<1, <<"3">> >>, <<3, NoChars>>, <<3, <<"1">> >>,
   <<-2, NoChars>>}
SomeFrom == [first_name |-> 4, last_name |-> 5, username |-> 6]
Padding == MaxBodyLength

Payload(t, c, d, f, padding) ==
  Event("str", EnvelopeLength + StrLen(t) + padding, "object", TRUE, t, c, d, f)

Events ==
  {Event("missing", 0, "malformed", FALSE, UndefinedText, 0, NoChars, NoFrom),
   Event("nonstring", 0, "malformed", FALSE, UndefinedText, 0, NoChars, NoFrom),
   Event("str", 5, "malformed", FALSE, UndefinedText, 0, NoChars, NoFrom),
   Event("str", 4, "null", FALSE, UndefinedText, 0, NoChars, NoFrom),
   Event("str", 2, "object", FALSE, UndefinedText, 0, NoChars, NoFrom)}
  \cup {Payload(t, x[1], x[2], NoFrom, 0) : t \in SendableTexts, x \in Targets}
  \cup {Payload(ShortText, c, NoChars, SomeFrom, 0) : c \in {1, 3}}
  \cup {Payload(t, x[1], x[2], NoFrom, 0) :
          t \in IgnoredTexts, x \in {<<0, NoChars>>, <<3, NoChars>>, <<0, <<"3">> >>}}
  \cup {Payload(t, x[1], x[2], NoFrom, Padding) :
          t \in {UndefinedText, ShortText}, x \in {<<0, NoChars>>, <<3, NoChars>>}}
  \cup {[Payload(ShortText, 0, d, NoFrom, 0) EXCEPT !.hasChatId = TRUE] :
          d \in {NoChars, <<"1">>}}

\* the handler is invoked: getTelegramConfig() begins its three reads.  The
\* handler does not read its event before getTelegramConfig has settled, so
\* the event is drawn where the handler first reads it
HandlerInvoke ==
  /\ hpc = "idle"
  /\ reqNo < MaxRequests
  /\ reqNo' = reqNo + 1
  /\ hpc' = "config"
  /\ LET r == BeginAll(parameterCache, calls, reqNo + 1, KeyOrder, now)
     IN  parameterCache' = r.cache /\ calls' = r.calls
  /\ UNCHANGED <<now, envSteps, store, sendVars, event, config,
                 joinError, response>>

\* Promise.all rejected: the catch block answers
HandlerConfigFailed(ev) ==
  /\ hpc = "config"
  /\ joinError # NoError
  /\ event' = ev
  /\ response' = CatchResponse(joinError)
  /\ hpc' = "returned"
  /\ UNCHANGED <<cacheVars, sendVars, config, joinError, reqNo>>

\* Promise.all fulfilled: the handler runs to its first sendMessage or return
HandlerValidate(ev) ==
  /\ hpc = "config"
  /\ joinError = NoError
  /\ AllRead(calls, reqNo)
  /\ event' = ev
  /\ config' = Snapshot(calls, reqNo)
  /\ LET v == Validate(ev, Snapshot(calls, reqNo))
         r == StartSend(v.text, v.chatId, Snapshot(calls, reqNo).botToken)
     IN  IF v.kind = "respond"
         THEN /\ response' = v.response
              /\ hpc' = "returned"
              /\ UNCHANGED sendVars
         ELSE /\ hpc' = v.phase
              /\ sends' = Append(sends, [text |-> v.text, chatId |-> v.chatId,
                                         botToken |-> Snapshot(calls, reqNo).botToken])
              /\ sm' = r.sm
              /\ log' = r.log
              /\ UNCHANGED response
  /\ UNCHANGED <<cacheVars, joinError, reqNo>>

\* the awaited sendMessage settled: the handler returns
HandlerAfterSend ==
  /\ hpc \in {"alertWebhook", "alertDirect", "dispatch"}
  /\ sm.pc = "done"
  /\ response' = AfterSend(hpc, sm)
  /\ hpc' = "returned"
  /\ UNCHANGED <<cacheVars, sendVars, event, config, joinError, reqNo>>

\* the response is delivered and the request's objects are dropped; the Map
\* and the remote calls still in flight stay with the process
HandlerEnd ==
  /\ hpc = "returned"
  /\ hpc' = "idle"
  /\ event' = NoEvent
  /\ config' = NoConfig
  /\ joinError' = NoError
  /\ response' = NoResponse
  /\ sends' = <<>>
  /\ sm' = IdleSend
  /\ log' = <<>>
  /\ calls' = InFlight(calls)
  /\ UNCHANGED <<now, envSteps, store, parameterCache, reqNo>>

(***************************************************************************)
(* The specifications.                                                     *)
(***************************************************************************)
InitialStore ==
  [k \in Keys |->
     CASE k = BotToken -> StoreEntry("ok", <<"T">>)
       [] k = AdminChatId -> StoreEntry("ok", <<"1">>)
       [] OTHER -> StoreEntry("ok", <<" ", "2", ",", "-", "2", " ", ",">>)]

Init ==
  /\ now = 0
  /\ envSteps = 0
  /\ store = InitialStore
  /\ parameterCache = [k \in Keys |-> NoEntry]
  /\ calls = {}
  /\ sends = <<>>
  /\ sm = IdleSend
  /\ log = <<>>
  /\ hpc = "idle"
  /\ event = NoEvent
  /\ config = NoConfig
  /\ joinError = NoError
  /\ response = NoResponse
  /\ reqNo = 0

\* what the remote side answers in the runs of the handler
HandlerStatuses == {200, 500}
HandlerBodies ==
  {[json |-> TRUE, numericHint |-> FALSE, retry_after |-> 0,
    description |-> <<"Bad Request: chat not found">>]}
HandlerNetworkErrors == {<<"ETIMEDOUT">>}
HandlerTickSteps == {CACHE_TTL_MS}

\* what the remote store turns to in the runs of the handler
HandlerStoreEntries(key) ==
  CASE key = BotToken -> {StoreEntry("AccessDeniedException", NoChars)}
    [] key = AdminChatId -> {StoreEntry("ParameterNotFound", NoChars)}
    [] OTHER -> {StoreEntry("ServiceError", NoChars),
                 StoreEntry("ok", <<"n", "o", "n", "e">>)}

\* the clock and the remote store are read by getParameter only: their steps
\* are taken between requests, and a remote call settles between requests or
\* while the handler awaits getTelegramConfig
BetweenRequests == hpc = "idle" /\ envSteps < MaxHandlerEnvSteps
AwaitingReads == hpc \in {"idle", "config"}

\* the Lambda: requests one after the other on a warm process
Next ==
  \/ HandlerInvoke
  \/ \E ev \in Events : HandlerConfigFailed(ev)
  \/ \E ev \in Events : HandlerValidate(ev)
  \/ HandlerAfterSend
  \/ HandlerEnd
  \/ \E c \in calls : AwaitingReads /\ FetchComplete(c)
  \/ \E st \in HandlerStatuses, b \in HandlerBodies : SendReceive(st, b)
  \/ \E m \in HandlerNetworkErrors : SendNetworkError(m)
  \/ SendWake
  \/ \E d \in HandlerTickSteps :
       BetweenRequests /\ Tick(d)
  \/ \E k \in Keys : \E e \in HandlerStoreEntries(k) :
       BetweenRequests /\ StoreChange(k, e)

Spec == Init /\ [][Next]_vars

\* a step of a request in progress: a continuation of the handler that is
\* ready, a remote call that settles, a timer that fires
HandlerProgress ==
  \/ \E ev \in Events : HandlerConfigFailed(ev)
  \/ \E ev \in Events : HandlerValidate(ev)
  \/ HandlerAfterSend
  \/ \E c \in calls : AwaitingReads /\ FetchComplete(c)
  \/ \E st \in HandlerStatuses, b \in HandlerBodies : SendReceive(st, b)
  \/ SendWake

\* the Lambda against a remote store that fails in every way on the bot
\* token, or on all parameters at once, for an authorized request, an
\* unauthorized one and an oversized one
ConfigEvents ==
  {Payload(ShortText, 0, <<"1">>, NoFrom, 0),
   Payload(ShortText, 3, NoChars, NoFrom, 0),
   Payload(ShortText, 0, NoChars, NoFrom, Padding)}

NextConfig ==
  \/ HandlerInvoke
  \/ \E ev \in ConfigEvents : HandlerConfigFailed(ev)
  \/ \E ev \in ConfigEvents : HandlerValidate(ev)
  \/ HandlerAfterSend
  \/ HandlerEnd
  \/ \E c \in calls : AwaitingReads /\ FetchComplete(c)
  \/ \E st \in HandlerStatuses, b \in HandlerBodies : SendReceive(st, b)
  \/ SendWake
  \/ \E d \in HandlerTickSteps : BetweenRequests /\ Tick(d)
  \/ \E e \in StoreEntries(BotToken) :
       BetweenRequests /\ StoreChange(BotToken, e)
  \/ BetweenRequests /\ StoreOutage

SpecConfig == Init /\ [][NextConfig]_vars

\* the Lambda while the bot token is rotated: the parameter is changed at
\* time 0, before, between or during the requests, a read takes no time or
\* one millisecond, and every message is delivered
StaleEvents == {Payload(ShortText, 0, <<"1">>, NoFrom, 0)}

StaleStoreEntries ==
  {StoreEntry("ok", <<"U">>), StoreEntry("ServiceError", NoChars)}

NextStale ==
  \/ HandlerInvoke
  \/ \E ev \in StaleEvents : HandlerConfigFailed(ev)
  \/ \E ev \in StaleEvents : HandlerValidate(ev)
  \/ HandlerAfterSend
  \/ HandlerEnd
  \/ \E c \in calls : AwaitingReads /\ FetchComplete(c)
  \/ \E b \in HandlerBodies : SendReceive(200, b)
  \/ \E d \in TickSteps : (hpc = "idle" \/ d = 1) /\ AwaitingReads /\ Tick(d)
  \/ \E e \in StaleStoreEntries :
       AwaitingReads /\ now = 0 /\ StoreChange(BotToken, e)

SpecStale == Init /\ [][NextStale]_vars

\* getParameter calls for the bot token that overlap while the token is
\* rotated once, from T to U
NextOverlap ==
  \/ GetParameter(BotToken)
  \/ \E c \in calls : FetchComplete(c)
  \/ \E d \in TickSteps : Tick(d)
  \/ StoreChange(BotToken, StoreEntry("ok", <<"U">>))

SpecOverlap == Init /\ [][NextOverlap]_vars

\* sendMessage called directly, with any arguments
SendTexts ==
  {UndefinedText, NonStringText, Str("text", 0, 0, 0), Str("text", 0, 1, 0),
   Str("text", 0, 4096, 0), Str("text", 0, 4097, 0)}
SendChatIds == {NoChars, <<"1">>}
SendTokens == {NoChars, <<"T">>}

CallSendMessage(text, chatId, botToken) ==
  /\ sm.pc \in {"idle", "done"}
  /\ reqNo < MaxRequests
  /\ reqNo' = reqNo + 1
  /\ sends' = <<[text |-> text, chatId |-> chatId, botToken |-> botToken]>>
  /\ LET r == StartSend(text, chatId, botToken)
     IN  sm' = r.sm /\ log' = r.log
  /\ UNCHANGED <<cacheVars, hpc, event, config, joinError, response>>

NextSend ==
  \/ \E t \in SendTexts, c \in SendChatIds, b \in SendTokens : CallSendMessage(t, c, b)
  \/ \E st \in Statuses, b \in Bodies : SendReceive(st, b)
  \/ \E m \in NetworkErrors : SendNetworkError(m)
  \/ SendWake

SpecSend == Init /\ [][NextSend]_vars

\* getParameter called directly, while time passes and one parameter changes
CacheKeys == {BotToken, AdminChatId}

\* what the bot token parameter turns to in the runs of getParameter
CacheStoreEntries ==
  {StoreEntry("ok", v) : v \in StoreValues(BotToken)}
  \cup {StoreEntry("ServiceError", NoChars)}

NextCache ==
  \/ \E k \in CacheKeys : GetParameter(k)
  \/ \E c \in calls : FetchComplete(c)
  \/ \E d \in TickSteps : Tick(d)
  \/ \E e \in CacheStoreEntries : StoreChange(BotToken, e)

SpecCache == Init /\ [][NextCache]_vars

\* getTelegramConfig called directly (hpc tells where the caller stands), with
\* the additional chat ids parameter set to any short string
ParseAlphabet == {" ", ",", "2", "3"}
ParseInputs ==
  UNION {[1..n -> ParseAlphabet] : n \in 1..MaxParseLen}
  \cup {<<"n", "o", "n", "e">>, <<" ", "n", "o", "n", "e">>,
        <<"n", "o", "n", "e", ",", "2">>,
        <<"\t", "2", " ", "3", "\t", ",", "\t">>,
        <<" ", "2", ",", "-", "2", " ", ",">>}

InitParse ==
  /\ now = 0
  /\ envSteps = 0
  /\ \E v \in ParseInputs :
       store = [InitialStore EXCEPT ![AdditionalChatIds] = StoreEntry("ok", v)]
  /\ parameterCache = [k \in Keys |-> NoEntry]
  /\ calls = {}
  /\ sends = <<>>
  /\ sm = IdleSend
  /\ log = <<>>
  /\ hpc = "idle"
  /\ event = NoEvent
  /\ config = NoConfig
  /\ joinError = NoError
  /\ response = NoResponse
  /\ reqNo = 0

\* getTelegramConfig() begins its three reads
GetTelegramConfig ==
  /\ hpc \in {"idle", "returned"}
  /\ reqNo < MaxRequests
  /\ reqNo' = reqNo + 1
  /\ hpc' = "config"
  /\ config' = NoConfig
  /\ LET r == BeginAll(parameterCache, InFlight(calls), reqNo + 1, KeyOrder, now)
     IN  parameterCache' = r.cache /\ calls' = r.calls
  /\ UNCHANGED <<now, envSteps, store, sendVars, event, joinError, response>>

\* Promise.all fulfilled: getTelegramConfig parses and returns the snapshot
GetTelegramConfigReturn ==
  /\ hpc = "config"
  /\ joinError = NoError
  /\ AllRead(calls, reqNo)
  /\ config' = Snapshot(calls, reqNo)
  /\ hpc' = "returned"
  /\ UNCHANGED <<cacheVars, sendVars, event, joinError, response, reqNo>>

NextParse ==
  \/ GetTelegramConfig
  \/ \E c \in calls : FetchComplete(c)
  \/ GetTelegramConfigReturn

SpecParse == InitParse /\ [][NextParse]_vars

\* request() settles (undici times a request out) and a timer fires
SpecSendFair ==
  /\ SpecSend
  /\ WF_vars(\E st \in Statuses, b \in Bodies : SendReceive(st, b))
  /\ WF_vars(SendWake)

(***************************************************************************)
(* What the claims speak of.                                               *)
(***************************************************************************)
RequestsIn(lg) == {i \in DOMAIN lg : lg[i].type = "request"}

\* the answer of the remote side to the last attempt made
LastAnswer == log[Len(log)]

\* a sendMessage call that made its third request and got no 200 for it
ThirdAttemptFailed ==
  /\ sm.pc = "done"
  /\ log # <<>>
  /\ LastAnswer.type \in {"response", "neterror"}
  /\ LastAnswer.attempt = 2
  /\ ~(LastAnswer.type = "response" /\ LastAnswer.status = 200)

\* the error of a failed attempt: the network error, the body that is no JSON,
\* or the API failure
ErrorOfAnswer(e) ==
  IF e.type = "neterror" THEN e.err
  ELSE IF ~e.body.json THEN <<"Unexpected token < in JSON">>
  ELSE <<"Failed to send message">>

\* C1: a non-429 4xx answer (with a JSON body carrying the error description)
\* is followed by no further outbound request of the call
C1_NoRequestAfterClientError ==
  \A i \in DOMAIN log :
    (/\ log[i].type = "response"
     /\ log[i].status >= 400 /\ log[i].status < 500 /\ log[i].status # 429
     /\ log[i].body.json)
    => \A j \in DOMAIN log : j > i => log[j].type # "request"

\* C8: a sendMessage call makes at most 3 outbound requests and, as long as
\* the remote side answers and timers fire, it ends
C8_BoundedAndTerminates ==
  /\ [](Cardinality(RequestsIn(log)) <= 3)
  /\ [](sm.pc \in {"request", "sleep"} => <>(sm.pc = "done"))

C8_Witness == sm.pc = "done" /\ Cardinality(RequestsIn(log)) = 3

\* C9: when the third attempt fails too, the call raises the error of that
\* third attempt
C9_RaisesLastError ==
  ThirdAttemptFailed =>
    sm.outcome = "threw" /\ sm.error = ErrorOfAnswer(LastAnswer)

\* the third attempt failed with another error than the first
C9_Witness ==
  /\ ThirdAttemptFailed
  /\ log[2].type = "neterror"
  /\ ErrorOfAnswer(log[2]) # ErrorOfAnswer(LastAnswer)
  /\ sm.error = ErrorOfAnswer(LastAnswer)

\* C10: after a 429 or a status >= 500 at attempt k < 2 the call sleeps
\* retry_after * 1000 ms when the 429 carries a numeric retry_after, and
\* 500 * 2^k ms otherwise
C10_RetryDelay ==
  \A i \in DOMAIN log :
    (/\ log[i].type = "response"
     /\ (log[i].status = 429 \/ log[i].status >= 500)
     /\ log[i].attempt < 2)
    => /\ i + 1 \in DOMAIN log
       /\ log[i + 1].type = "sleep"
       /\ log[i + 1].ms =
            IF log[i].status = 429 /\ log[i].body.json /\ log[i].body.numericHint
            THEN log[i].body.retry_after * 1000
            ELSE IF log[i].attempt = 0 THEN 500 ELSE 1000

\* a 429 with retry_after 2 slept 2000 ms, then a 500 at attempt 1 slept 1000 ms
C10_Witness ==
  /\ Len(log) >= 6
  /\ log[2].type = "response" /\ log[2].status = 429 /\ log[2].body.numericHint
  /\ log[2].body.retry_after = 2
  /\ log[3].type = "sleep" /\ log[3].ms = 2000
  /\ log[5].type = "response" /\ log[5].status = 500
  /\ log[6].type = "sleep" /\ log[6].ms = 1000

\* sendMessage has been called with a string of n or more units
CalledWithLength(n) ==
  sm.pc # "idle" /\ sm.text.kind = "str"
  /\ sm.text.lead + sm.text.core + sm.text.trail >= n

\* the call has ended by raising msg, with no outbound request made
FailedFast(msg) ==
  /\ sm.pc = "done" /\ sm.outcome = "threw" /\ sm.error = msg
  /\ log = <<>>

\* C11: a sendMessage call with a text of 4097 units or more raises
\* 'Message too long' with no outbound request; with a text of exactly 4096
\* units, a bot token and a chat id, its first outbound request is issued
C11_LengthLimit ==
  /\ CalledWithLength(4097) => FailedFast(<<"Message too long">>)
  /\ (/\ CalledWithLength(4096) /\ ~CalledWithLength(4097)
      /\ sm.botToken # <<>> /\ sm.chatId # <<>>)
     => /\ log # <<>>
        /\ log[1].type = "request" /\ log[1].attempt = 0
        /\ log[1].text = sm.text /\ log[1].chat_id = sm.chatId

\* a text of 4097 units, sent with a bot token and a chat id, was rejected
C11_Witness ==
  /\ CalledWithLength(4097) /\ ~CalledWithLength(4098)
  /\ sm.botToken # <<>> /\ sm.chatId # <<>>
  /\ FailedFast(<<"Message too long">>)

\* C12: the preconditions of sendMessage are checked in the order text,
\* length, bot token, chat id; the first that fails ends the call with no
\* outbound request: a silent return for an absent, empty or non-string text,
\* then 'Message too long', 'Bot token is not provided', 'chat_id is
\* required', which are three different errors
C12_PreconditionOrder ==
  sm.pc # "idle" =>
    IF ~CalledWithLength(1)
    THEN sm.pc = "done" /\ sm.outcome = "returned" /\ sm.error = <<>> /\ log = <<>>
    ELSE IF CalledWithLength(4097)
    THEN FailedFast(<<"Message too long">>)
    ELSE IF sm.botToken = <<>>
    THEN FailedFast(<<"Bot token is not provided">>) /\ sm.error # <<"Message too long">>
    ELSE IF sm.chatId = <<>>
    THEN /\ FailedFast(<<"chat_id is required">>)
         /\ sm.error \notin {<<"Message too long">>, <<"Bot token is not provided">>}
    ELSE log # <<>> /\ log[1].type = "request"

\* a sendable text with neither bot token nor chat id fails on the bot token
C12_Witness ==
  /\ CalledWithLength(1) /\ ~CalledWithLength(4097)
  /\ sm.botToken = <<>> /\ sm.chatId = <<>>
  /\ FailedFast(<<"Bot token is not provided">>)

\* the handler has read its event and its configuration
ConfigResolved == hpc \notin {"idle", "config"} /\ joinError = NoError

\* the body passes the envelope validation and parses to an object
ValidEnvelope(ev) ==
  /\ ev.bodyKind = "str"
  /\ ev.bodyLength >= 1 /\ ev.bodyLength <= 10000
  /\ ev.json = "object"

\* message.text is a string with something else than whitespace in it
ValidText(ev) == ev.hasMessage /\ ev.text.kind = "str" /\ ev.text.core > 0

\* the chat id the request is about: chat.id first, chat_id otherwise
ResolvedTarget(ev) == IF ev.chatId # 0 THEN toString(ev.chatId) ELSE ev.chat_id

\* the authorized set: the admin chat id and the additional chat ids
AuthorizedSet(cfg) ==
  {cfg.adminChatId} \cup {cfg.additionalChatIds[i] : i \in DOMAIN cfg.additionalChatIds}

\* the outbound requests of the request that are addressed to a chat id
RequestsTo(chatId) == {i \in RequestsIn(log) : log[i].chat_id = chatId}

\* no sendMessage call and no outbound request of the request names the chat id
NothingAddressedTo(chatId) ==
  /\ \A i \in DOMAIN sends : sends[i].chatId # chatId
  /\ RequestsTo(chatId) = {}

\* C2: a request whose body is a string longer than 10,000 characters is
\* answered 413 with no messaging API call and no secret-store fetch
C2_OversizedNoDownstream ==
  (hpc = "returned" /\ event.bodyKind = "str" /\ event.bodyLength > 10000)
  => /\ response.statusCode = 413
     /\ sends = <<>> /\ log = <<>>
     /\ \A c \in calls : c.owner = reqNo => c.fetches = 0

\* C3: a request with valid non-empty text and an unauthorized target has, by
\* the time it is answered, invoked sendMessage exactly once, for the admin
\* chat id, and that call has issued at least one outbound request
C3_UnauthorizedAlerts ==
  (/\ hpc = "returned" /\ ConfigResolved
   /\ ValidEnvelope(event) /\ ValidText(event)
   /\ ResolvedTarget(event) # <<>>
   /\ ResolvedTarget(event) \notin AuthorizedSet(config))
  => /\ Len(sends) = 1
     /\ sends[1].chatId = config.adminChatId
     /\ RequestsTo(config.adminChatId) # {}

\* C4 as stated: configuration resolved and an unauthorized webhook chat.id
\* give 200 'Unauthorized' and nothing addressed to that chat id
C4_Original ==
  (/\ ConfigResolved
   /\ event.chatId # 0
   /\ toString(event.chatId) \notin AuthorizedSet(config))
  => /\ NothingAddressedTo(toString(event.chatId))
     /\ hpc = "returned" =>
          response = Response(200, "message", "Unauthorized", NoChars)

\* C4: configuration resolved, a body that passes the envelope validation, a
\* text that is non-empty after trimming and an unauthorized webhook chat.id
\* give 200 'Unauthorized' and nothing addressed to that chat id
C4_WebhookUnauthorized ==
  (/\ ConfigResolved
   /\ ValidEnvelope(event) /\ ValidText(event)
   /\ event.chatId # 0
   /\ toString(event.chatId) \notin AuthorizedSet(config))
  => /\ NothingAddressedTo(toString(event.chatId))
     /\ hpc = "returned" =>
          response = Response(200, "message", "Unauthorized", NoChars)

\* the webhook of chat 3 was answered 'Unauthorized' after its alert went out
\* to the admin chat
C4_Witness ==
  /\ hpc = "returned" /\ ConfigResolved
  /\ ValidEnvelope(event) /\ ValidText(event)
  /\ event.chatId = 3
  /\ <<"3">> \notin AuthorizedSet(config)
  /\ response = Response(200, "message", "Unauthorized", NoChars)
  /\ RequestsTo(config.adminChatId) # {}

\* C5 as stated: configuration resolved, no webhook chat.id and an
\* unauthorized chat_id give 403 and nothing addressed to that chat_id
C5_Original ==
  (/\ ConfigResolved
   /\ event.chatId = 0 /\ event.chat_id # <<>>
   /\ event.chat_id \notin AuthorizedSet(config))
  => /\ NothingAddressedTo(event.chat_id)
     /\ hpc = "returned" => response.statusCode = 403

\* C5: configuration resolved, a body that passes the envelope validation, a
\* text that is non-empty after trimming, no webhook chat.id and an
\* unauthorized chat_id give 403 and nothing addressed to that chat_id
C5_DirectUnauthorized ==
  (/\ ConfigResolved
   /\ ValidEnvelope(event) /\ ValidText(event)
   /\ event.chatId = 0 /\ event.chat_id # <<>>
   /\ event.chat_id \notin AuthorizedSet(config))
  => /\ NothingAddressedTo(event.chat_id)
     /\ hpc = "returned" => response.statusCode = 403

\* the direct call for chat "3" was answered 403 after its alert went out to
\* the admin chat
C5_Witness ==
  /\ hpc = "returned" /\ ConfigResolved
  /\ ValidEnvelope(event) /\ ValidText(event)
  /\ event.chatId = 0 /\ event.chat_id = <<"3">>
  /\ <<"3">> \notin AuthorizedSet(config)
  /\ response = Response(403, "error", "Unauthorized chat_id", NoChars)
  /\ RequestsTo(config.adminChatId) # {}

\* C13: a request whose configuration read failed (parameter not found,
\* access denied, or any other failure of the remote read) is answered 500
\* with the server-configuration error and not with the generic error
C13_ConfigFailureResponse ==
  (hpc = "returned" /\ joinError # <<>>)
  => response = Response(500, "error", "Server configuration error - check logs", <<>>)

\* the handler has parsed the body to a payload
BodyParsed(ev) == ValidEnvelope(ev)

\* message.text is missing or is no string
TextMissing(ev) == ~ev.hasMessage \/ ev.text.kind # "str"

\* message.text is a string that trims to the empty string
TextTrimsToEmpty(ev) == ev.hasMessage /\ ev.text.kind = "str" /\ ev.text.core = 0

\* the request was answered with the acknowledgment ack and nothing was sent
Acknowledged(ack) ==
  /\ response = Response(200, "message", ack, <<>>)
  /\ sends = <<>> /\ log = <<>>

\* C14 as stated: configuration resolved and the body parsed; a text that is
\* missing or no string is answered 200 'No action taken', a text that trims
\* to the empty string 200 'Empty message ignored', with no sendMessage call
C14_Original ==
  (hpc = "returned" /\ ConfigResolved /\ BodyParsed(event))
  => /\ TextMissing(event) => Acknowledged("No action taken")
     /\ TextTrimsToEmpty(event) => Acknowledged("Empty message ignored")

\* C14: configuration resolved and the body parsed; a text that is missing,
\* no string or the empty string is answered 200 'No action taken', a
\* non-empty text that trims to the empty string 200 'Empty message ignored',
\* with no sendMessage call, whatever chat ids the payload carries
C14_IgnoredTexts ==
  (hpc = "returned" /\ ConfigResolved /\ BodyParsed(event))
  => /\ (TextMissing(event) \/ (TextTrimsToEmpty(event) /\ event.text.lead + event.text.trail = 0))
          => Acknowledged("No action taken")
     /\ (TextTrimsToEmpty(event) /\ event.text.lead + event.text.trail > 0)
          => Acknowledged("Empty message ignored")

\* a whitespace-only text sent with an unauthorized chat.id was ignored
C14_Witness ==
  /\ hpc = "returned" /\ ConfigResolved /\ BodyParsed(event)
  /\ TextTrimsToEmpty(event) /\ event.text.lead > 0
  /\ event.chatId = 3
  /\ Acknowledged("Empty message ignored")

\* the client-input errors: a missing or non-string body, a body over 10,000
\* units, a body that is no JSON or is null, a text with no chat id at all
ClientInputError(ev) ==
  \/ ev.bodyKind # "str" \/ ev.bodyLength = 0
  \/ ev.bodyLength > 10000
  \/ ev.json \in {"malformed", "null"}
  \/ (ValidText(ev) /\ ev.chatId = 0 /\ ev.chat_id = <<>>)

\* C15: with the configuration resolved, every client-input error is answered
\* with a 4xx status and no sendMessage call (no retry, no alert)
C15_ClientErrorsAre4xx ==
  (hpc = "returned" /\ ConfigResolved /\ ClientInputError(event))
  => /\ response.statusCode >= 400 /\ response.statusCode < 500
     /\ sends = <<>> /\ log = <<>>

\* a request with valid text and an authorized target
AuthorizedRequest ==
  /\ ConfigResolved
  /\ ValidEnvelope(event) /\ ValidText(event)
  /\ ResolvedTarget(event) # <<>>
  /\ ResolvedTarget(event) \in AuthorizedSet(config)

\* C16: when the sendMessage call of an authorized request raises (a failed
\* precondition or the last error of its attempts), the handler answers 500
\* 'Internal server error', whatever the error, and the answer carries no
\* part of the error's message
C16_GenericDispatchFailure ==
  (hpc = "returned" /\ AuthorizedRequest /\ sm.outcome = "threw")
  => /\ response = Response(500, "error", "Internal server error", <<>>)
     /\ \A i \in DOMAIN sm.error : response.text # sm.error[i]

\* three attempts ended on a network error and the answer is the generic 500
C16_Witness ==
  /\ hpc = "returned" /\ AuthorizedRequest
  /\ sm.outcome = "threw" /\ sm.error = <<"ETIMEDOUT">>
  /\ Cardinality(RequestsIn(log)) = 3
  /\ response = Response(500, "error", "Internal server error", <<>>)

\* a request with valid text and an unauthorized target
UnauthorizedRequest ==
  /\ ConfigResolved
  /\ ValidEnvelope(event) /\ ValidText(event)
  /\ ResolvedTarget(event) # <<>>
  /\ ResolvedTarget(event) \notin AuthorizedSet(config)

\* C17: an unauthorized request is answered 200 'Unauthorized' on the webhook
\* path and 403 'Unauthorized chat_id' on the direct path, the same answer
\* whether its alert was delivered, failed a precondition or failed all its
\* attempts; never a 500
C17_AlertOutcomeIgnored ==
  (hpc = "returned" /\ UnauthorizedRequest)
  => /\ sm.pc = "done" /\ sm.outcome \in {"returned", "threw"}
     /\ response = IF event.chatId # 0
                   THEN Response(200, "message", "Unauthorized", <<>>)
                   ELSE Response(403, "error", "Unauthorized chat_id", <<>>)

\* the alert of a webhook request failed its three attempts and the request
\* was answered 200 'Unauthorized'
C17_Witness ==
  /\ hpc = "returned" /\ UnauthorizedRequest
  /\ event.chatId # 0
  /\ sm.outcome = "threw" /\ Cardinality(RequestsIn(log)) = 3
  /\ response = Response(200, "message", "Unauthorized", <<>>)

\* the handler has been invoked and has not yet returned
InRequest == hpc \in {"config", "alertWebhook", "alertDirect", "dispatch"}

\* a bound on the steps the sendMessage call in progress can still take
SendStepsLeft ==
  CASE sm.pc = "request" -> 2 * (2 - sm.attempt) + 2
    [] sm.pc = "sleep" -> 2 * (2 - sm.attempt) + 1
    [] OTHER -> 0

\* a bound on the steps the request in progress can still take
StepsLeft ==
  CASE hpc = "config" ->
         10 + Cardinality({c \in calls : c.state = "pending"})
    [] hpc \in {"alertWebhook", "alertDirect", "dispatch"} -> 1 + SendStepsLeft
    [] OTHER -> 0

\* C18: every invocation of the handler ends with a response: while a request
\* is in progress a step of it is possible (nothing raised past the handler,
\* nothing awaited that cannot settle) and every step brings the response
\* nearer; the statusCode of the response is one of 200, 400, 403, 413, 500
C18_HandlerTotal ==
  /\ [](hpc = "returned" =>
          /\ response.statusCode \in {200, 400, 403, 413, 500}
          /\ response.key \in {"message", "error"})
  /\ [](InRequest => ENABLED HandlerProgress)
  /\ [][InRequest => StepsLeft' < StepsLeft]_vars

\* a request whose body parses to null, the second of the process, was answered
C18_Witness ==
  /\ hpc = "returned" /\ reqNo = 2
  /\ event.bodyKind = "str" /\ event.json = "null"
  /\ response.statusCode = 500

\* the webhook path was taken: the alert of the webhook path and its answer
\* when chat.id is unauthorized, a delivery to chat.id otherwise
TookWebhookPath ==
  /\ Len(sends) = 1
  /\ IF toString(event.chatId) \in AuthorizedSet(config)
     THEN sends[1].chatId = toString(event.chatId) /\ sends[1].text.what = "text"
     ELSE /\ sends[1].chatId = config.adminChatId
          /\ sends[1].text.what = "webhook alert"
          /\ response = Response(200, "message", "Unauthorized", <<>>)

\* the direct path was taken: the alert of the direct path and its answer
\* when chat_id is unauthorized, a delivery to chat_id otherwise
TookDirectPath ==
  /\ Len(sends) = 1
  /\ IF event.chat_id \in AuthorizedSet(config)
     THEN sends[1].chatId = event.chat_id /\ sends[1].text.what = "text"
     ELSE /\ sends[1].chatId = config.adminChatId
          /\ sends[1].text.what = "direct alert"
          /\ response = Response(403, "error", "Unauthorized chat_id", <<>>)

\* the handler has answered a request with valid text
AnsweredValidText ==
  hpc = "returned" /\ ConfigResolved /\ ValidEnvelope(event) /\ ValidText(event)

\* C19 as stated: a payload that carries chat.id takes the webhook path,
\* whatever chat_id it carries; the direct path is taken only by a payload
\* with no chat.id
C19_Original ==
  AnsweredValidText
  => /\ event.hasChatId => TookWebhookPath /\ ~TookDirectPath
     /\ TookDirectPath => ~event.hasChatId

\* C19: a payload that carries a non-zero chat.id takes the webhook path,
\* whatever chat_id it carries: the target and the authorization are those of
\* chat.id; the direct path is taken only by a payload whose chat.id is
\* absent or zero, and no request takes both
C19_WebhookFirst ==
  AnsweredValidText
  => /\ Len(sends) <= 1
     /\ (event.hasChatId /\ event.chatId # 0) => TookWebhookPath /\ ~TookDirectPath
     /\ TookDirectPath => (~event.hasChatId \/ event.chatId = 0) /\ ~TookWebhookPath

\* chat.id 3 is unauthorized and chat_id "1" is authorized: the webhook alert
\* was sent and the request answered 200 'Unauthorized'
C19_Witness ==
  /\ AnsweredValidText
  /\ event.chatId = 3 /\ event.chat_id = <<"1">>
  /\ event.chat_id \in AuthorizedSet(config)
  /\ TookWebhookPath
  /\ response = Response(200, "message", "Unauthorized", <<>>)

\* the positions that end a piece of s: before it, its commas, after it
PieceBounds(s) == {0, Len(s) + 1} \cup {i \in 1..Len(s) : s[i] = ","}

\* the positions of the piece that begins after the bound b that are no
\* whitespace
PieceCore(s, b) ==
  {i \in (b + 1)..Len(s) :
     /\ s[i] \notin {" ", "\t"}
     /\ \A c \in PieceBounds(s) : ~(b < c /\ c <= i)}

\* the bounds of s that begin a piece with something else than whitespace
KeptPieces(s) == {b \in PieceBounds(s) : PieceCore(s, b) # {}}

Least(S) == CHOOSE x \in S : \A y \in S : x <= y
Greatest(S) == CHOOSE x \in S : \A y \in S : x >= y

\* r is the list of the trimmed non-empty pieces of s, in their order
IsPiecesOf(r, s) ==
  /\ Len(r) = Cardinality(KeptPieces(s))
  /\ \A b \in KeptPieces(s) :
       r[1 + Cardinality({k \in KeptPieces(s) : k < b})] =
         SubSeq(s, Least(PieceCore(s, b)), Greatest(PieceCore(s, b)))

\* the value of the additional chat ids parameter that was read
AdditionalValue == store["/telegram-notify-bot/additional-chat-ids"].value

\* C20: the additional chat ids getTelegramConfig returns are the empty list
\* for the string "none" and for a string of whitespace only; for any other
\* string they are its pieces between commas, each trimmed, the empty ones
\* dropped, in their order
C20_AdditionalChatIdsParsed ==
  (hpc = "returned" /\ config # NoConfig)
  => IF AdditionalValue = <<"n", "o", "n", "e">>
        \/ \A i \in DOMAIN AdditionalValue : AdditionalValue[i] \in {" ", "\t"}
     THEN config.additionalChatIds = <<>>
     ELSE IsPiecesOf(config.additionalChatIds, AdditionalValue)

\* " 2,-2 ," was parsed to the two ids "2" and "-2"
C20_Witness ==
  /\ hpc = "returned"
  /\ AdditionalValue = <<" ", "2", ",", "-", "2", " ", ",">>
  /\ config.additionalChatIds = << <<"2">>, <<"-", "2">> >>

\* the remote side answered 200 to a request of the call
Delivered == \E i \in DOMAIN log : log[i].type = "response" /\ log[i].status = 200

\* the text without the whitespace around it
Trimmed(t) == Str(t.what, 0, t.core, 0)

\* C6: a request with valid text and an authorized target whose delivery
\* succeeds has invoked sendMessage exactly once, with the trimmed text and
\* the resolved chat id, sent no alert, and is answered 200 with that chat id
C6_AuthorizedDelivery ==
  (/\ hpc = "returned" /\ ConfigResolved
   /\ ValidEnvelope(event) /\ ValidText(event)
   /\ ResolvedTarget(event) # <<>>
   /\ ResolvedTarget(event) \in AuthorizedSet(config)
   /\ Delivered)
  => /\ sends = <<[text |-> Trimmed(event.text),
                   chatId |-> ResolvedTarget(event),
                   botToken |-> config.botToken]>>
     /\ \A i \in RequestsIn(log) :
          /\ log[i].chat_id = ResolvedTarget(event)
          /\ log[i].text = Trimmed(event.text)
     /\ response = Response(200, "message", "Message sent successfully",
                            ResolvedTarget(event))

\* a text with whitespace around it, sent with chat.id 1 and chat_id "3", was
\* delivered to chat "1" at the second attempt
C6_Witness ==
  /\ hpc = "returned" /\ ConfigResolved
  /\ event.chatId = 1 /\ event.chat_id = <<"3">>
  /\ event.text.lead > 0 /\ event.text.trail > 0 /\ event.text.core > 0
  /\ Delivered
  /\ Cardinality(RequestsIn(log)) = 2
  /\ response = Response(200, "message", "Message sent successfully", <<"1">>)


\* the getParameter call begun by this step, for the key k
BeginsRead(k) ==
  /\ reqNo' = reqNo + 1
  /\ \E c \in calls' : c.owner = reqNo' /\ c.key = k

\* ssmClient.send of the call c settles in this step
Settles(c) ==
  /\ c.state = "pending"
  /\ \A d \in calls' : (d.owner = c.owner /\ d.key = c.key) => d.state # "pending"

MatchesFailure(error, key, entry) ==
  CASE entry.status = "ParameterNotFound" ->
         Head(error) = "Configuration error:" /\ \E i \in DOMAIN error : error[i] = key
    [] entry.status = "AccessDeniedException" ->
         Head(error) = "Permission error: Lambda function cannot access"
    [] entry.status = "ok" ->
         /\ Head(error) = "Failed to fetch"
         /\ error[Len(error)] = "exists but has no value"
    [] OTHER ->
         /\ Head(error) = "Failed to fetch"
         /\ error[Len(error)] = "Rate exceeded"

\* C21: a getParameter call sends at most one command; when the command of a
\* call fails (parameter absent, access denied, another failure, an empty
\* value) the call raises the error of that kind and leaves the Map as it
\* was, and a read of a key that has no entry sends a command again
C21_NoRetryNoNegativeCache ==
  /\ [](\A c \in calls : c.fetches <= 1)
  /\ [][/\ \A c \in calls :
             (/\ Settles(c)
              /\ ~(AnswerOf(c, store).status = "ok"
                   /\ AnswerOf(c, store).value # <<>>))
             => /\ parameterCache' = parameterCache
                /\ \E d \in calls' :
                     /\ d.owner = c.owner /\ d.key = c.key
                     /\ d.state = "failed" /\ d.fetches = 1
                     /\ MatchesFailure(d.error, c.key, AnswerOf(c, store))
        /\ \A k \in Keys :
             (BeginsRead(k) /\ ~parameterCache[k].present)
             => /\ CallOf(calls', reqNo', k).state = "pending"
                /\ CallOf(calls', reqNo', k).fetches = 1
                /\ ~parameterCache'[k].present
       ]_vars

\* the parameter is out of reach; the first request failed on it and stored
\* nothing, and the second request, finding no entry, sent its own command,
\* which failed as well
C21_Witness ==
  \E c \in calls :
    /\ c.owner = reqNo /\ reqNo = 2
    /\ store[c.key].status \in FailureStatuses
    /\ c.found = "absent" /\ c.state = "failed" /\ c.fetches = 1
    /\ ~parameterCache[c.key].present

\* the reads of the request in progress that have failed
FailedReads == {c \in calls : c.owner = reqNo /\ c.state = "failed"}

\* C22: getTelegramConfig gives a snapshot only when its three reads have
\* succeeded, and the snapshot holds their three values; when a read fails
\* it fails with the error of the read that failed first, the handler gets
\* no snapshot, and it answers 500 without a sendMessage call
C22_AllOrNothing ==
  [][/\ (hpc = "config" /\ hpc' # "config" /\ config' # NoConfig)
          => /\ FailedReads = {}
             /\ \A k \in Keys : \E c \in calls :
                  c.owner = reqNo /\ c.key = k /\ c.state = "ok"
             /\ config'.botToken = CallOf(calls, reqNo, BotToken).value
             /\ config'.adminChatId = CallOf(calls, reqNo, AdminChatId).value
             /\ config'.additionalChatIds =
                  ParseAdditionalChatIds(CallOf(calls, reqNo, AdditionalChatIds).value)
     /\ (hpc = "config" /\ FailedReads = {} /\ FailedReads' # {})
          => \E c \in FailedReads' : joinError' = c.error /\ joinError' # NoError
     /\ (hpc = "config" /\ FailedReads # {})
          => /\ joinError' = joinError
             /\ hpc' \in {"config", "returned"}
             /\ config' = NoConfig
             /\ sends' = <<>> /\ log' = <<>>
             /\ hpc' = "returned" => response'.statusCode = 500
    ]_vars

\* the reads of the bot token and of the admin chat id both failed, the
\* second of them first, and the handler answered 500 with the error of the
\* admin chat id's read in hand
C22_Witness ==
  /\ hpc = "returned"
  /\ response.statusCode = 500
  /\ config = NoConfig /\ sends = <<>>
  /\ \E c, d \in FailedReads :
       /\ c.key = BotToken /\ d.key = AdminChatId
       /\ c.error # d.error
       /\ joinError = d.error

\* the non-empty values the bot credential can have
Credentials == {v \in StoreValues(BotToken) : v # <<>>}

\* the snapshot and the sendMessage call as they would be with the
\* credential u in the place of the one in use
WithCredential(cfg, u) == [cfg EXCEPT !.botToken = u]
SentWith(s, u) == [s EXCEPT !.botToken = u]

\* C23: the response does not depend on the bot credential.  Whatever
\* non-empty value stands in the credential's place, with the same event,
\* the same destinations and the same remote outcomes, each step of the
\* handler that sets the response sets the same status and body, and the
\* step that begins a sendMessage call begins the same call with the same
\* first request
C23_CredentialNotInResponse ==
  [][\A u \in Credentials :
       /\ (hpc = "config" /\ hpc' = "returned" /\ joinError = NoError)
            => response' = Validate(event', WithCredential(config', u)).response
       /\ (hpc = "config" /\ hpc' = "returned" /\ joinError # NoError)
            => response' = CatchResponse(joinError)
       /\ (hpc = "config" /\ hpc' \notin {"config", "returned"})
            => LET v == Validate(event', WithCredential(config', u))
                   r == StartSend(v.text, v.chatId, u)
               IN  /\ v.kind # "respond" /\ v.phase = hpc'
                   /\ SentWith(sm', u) = r.sm
                   /\ log' = r.log
       /\ (sm.pc # "idle" /\ sm'.pc # "idle")
            => sm'.botToken = sm.botToken
       /\ (hpc \in {"alertWebhook", "alertDirect", "dispatch"} /\ hpc' = "returned")
            => response' = AfterSend(hpc, SentWith(sm, u))
    ]_vars

\* a message was delivered with the credential U, which the parameter was
\* changed to, and the handler has answered; the runs with the credential T
\* answer the same
C23_Witness ==
  /\ hpc = "returned"
  /\ config.botToken = <<"U">>
  /\ sm.botToken = <<"U">> /\ sm.outcome = "returned"
  /\ response = Response(200, "message", "Message sent successfully", <<"1">>)

\* the default of the Lambda function's timeout, in seconds
lambda_timeout == 15

\* the time a sendMessage call has spent in its backoff waits, in ms
RECURSIVE TotalWait(_)
TotalWait(lg) ==
  IF lg = <<>> THEN 0
  ELSE (IF Head(lg).type = "sleep" THEN Head(lg).ms ELSE 0) + TotalWait(Tail(lg))

\* C24: whatever the remote side answers, the backoff waits of one
\* sendMessage call add up to no more than the function's timeout
C24_WaitsWithinTimeout == TotalWait(log) <= lambda_timeout * 1000

\* the attempt failed below the API: request() rejected, or the body of an
\* answer other than 200 was no JSON
NetworkLevelFailure(e) ==
  \/ e.type = "neterror"
  \/ e.type = "response" /\ e.status # 200 /\ ~e.body.json

\* the attempt ended in the function's own 'Failed to send message' error
OwnFailure(e) ==
  /\ e.type = "response" /\ e.status # 200 /\ e.body.json
  /\ ~(e.status = 429 \/ e.status >= 500) \/ e.attempt = 2

\* C25: after a network-level failure of attempt k < 2 the call waits
\* 500 * 2^k ms and tries again, whereas after its own 'Failed to send
\* message' error it neither waits nor tries again
C25_OnlyNetworkFailuresRetried ==
  \A i \in DOMAIN log :
    /\ (NetworkLevelFailure(log[i]) /\ log[i].attempt < 2)
         => /\ i < Len(log)
            /\ log[i + 1].type = "sleep"
            /\ log[i + 1].ms = 500 * Pow2(log[i].attempt)
            /\ i + 1 < Len(log) => log[i + 2].type = "request"
    /\ OwnFailure(log[i]) => i = Len(log)

\* the call failed on a client error (a 4xx other than 429) whose JSON body
\* carries the remote side's description
FailedOnClientError ==
  /\ sm.pc = "done" /\ sm.outcome = "threw"
  /\ log # <<>>
  /\ LastAnswer.type = "response"
  /\ LastAnswer.status >= 400 /\ LastAnswer.status < 500 /\ LastAnswer.status # 429
  /\ LastAnswer.body.json

\* C26: the error sendMessage raises for a 4xx answer other than 429 carries
\* the description the remote side gave in the body
C26_ErrorCarriesDescription ==
  FailedOnClientError
    => \E i \in DOMAIN sm.error : sm.error[i] = Head(LastAnswer.body.description)

\* C27: a read of key k is served from the Map exactly when k has an entry
\* with now < expiresAt (at now = expiresAt it is not); the read deletes the
\* entry of k when it does not serve it and leaves the entries of the other
\* keys as they are, as does the completion of its remote call; an entry
\* goes away only in a read of its own key
C27_LazyPerKeyEviction ==
  [][/\ \A k \in Keys :
          BeginsRead(k) =>
            LET c == CallOf(calls', reqNo', k)
                served == /\ parameterCache[k].present
                          /\ now < parameterCache[k].expiresAt
            IN  /\ (c.fetches = 0 /\ c.state = "ok") <=> served
                /\ served => /\ c.value = parameterCache[k].value
                             /\ parameterCache'[k] = parameterCache[k]
                /\ ~served => ~parameterCache'[k].present
                /\ \A j \in Keys \ {k} : parameterCache'[j] = parameterCache[j]
     /\ \A c \in calls :
          Settles(c)
            => \A j \in Keys \ {c.key} : parameterCache'[j] = parameterCache[j]
     /\ \A j \in Keys :
          (parameterCache[j].present /\ ~parameterCache'[j].present)
            => BeginsRead(j)
    ]_vars

\* a read of the bot token at the very instant its entry expires: the entry
\* is gone and a command is on its way, while the entry of the admin chat id,
\* which expires at the same instant, is still in the Map
C27_Witness ==
  /\ now = CACHE_TTL_MS
  /\ \E c \in calls :
       /\ c.owner = reqNo /\ c.key = BotToken
       /\ c.found = "expired" /\ c.state = "pending"
  /\ ~parameterCache[BotToken].present
  /\ parameterCache[AdminChatId].present
  /\ parameterCache[AdminChatId].expiresAt = now

\* the text is one of the two security alerts
IsAlert(t) == t.what \in {"webhook alert", "direct alert"}

\* the message may go to the chat id: an alert to the admin chat only, the
\* request's own text to a member of the authorized set
MayGoTo(t, chatId) ==
  /\ chatId \in AuthorizedSet(config)
  /\ IsAlert(t) => chatId = config.adminChatId
  /\ ~IsAlert(t) => t = Trimmed(event.text) /\ chatId = ResolvedTarget(event)

\* C28: every sendMessage call of the handler and every outbound request it
\* leads to is addressed to the admin chat id or to one of the additional
\* chat ids of the snapshot of the request: the request's own text to an
\* authorized target, an alert to the admin chat id
C28_OnlyAuthorizedDestinations ==
  /\ \A i \in DOMAIN sends : MayGoTo(sends[i].text, sends[i].chatId)
  /\ \A i \in RequestsIn(log) : MayGoTo(log[i].text, log[i].chat_id)
  /\ Len(sends) <= 1

\* the request of the unauthorized chat 3 led to one outbound request, the
\* alert, addressed to the admin chat id, and the authorized set had other
\* members
C28_Witness ==
  /\ hpc = "returned"
  /\ event.chatId = 3
  /\ config.additionalChatIds # <<>>
  /\ Len(sends) = 1 /\ IsAlert(sends[1].text)
  /\ sends[1].chatId = config.adminChatId
  /\ RequestsTo(config.adminChatId) # {}
  /\ RequestsTo(<<"3">>) = {}

\* C29: every outbound request of a sendMessage call but the first comes
\* right after a backoff wait: no two requests of a call follow one another
\* with no wait in between, whatever the status or the failure
C29_WaitBetweenRequests ==
  \A i \in RequestsIn(log) : i > 1 => log[i - 1].type = "sleep"

\* C30: a value that was changed in the remote store at time t is the value
\* every request that starts at t + TTL or later works with.  The bot token
\* is changed at time 0 only: a request that starts at the TTL or later and
\* takes the bot token from the Map takes the value the remote store has (a
\* request that finds no entry to serve asks the remote store after it started)
C30_StalenessWithinTtl ==
  [][(/\ hpc = "idle" /\ hpc' = "config"
      /\ now >= CACHE_TTL_MS
      /\ store[BotToken].status = "ok")
     => LET c == CallOf(calls', reqNo', BotToken)
        IN  c.state = "ok" => c.value = store[BotToken].value
    ]_vars

\* C31: of two getParameter calls for the same key whose commands are in
\* flight together, the one that completes late does not put an older value
\* over a newer one.  The bot token is changed once, so the value the remote
\* store holds is the newest there is: a call that settles while the Map
\* holds that value leaves that value in the Map
C31_NoOlderOverwrite ==
  [][\A c \in calls :
       (/\ Settles(c)
        /\ parameterCache[c.key].present
        /\ parameterCache[c.key].value = store[c.key].value)
       => parameterCache'[c.key].value = store[c.key].value
    ]_vars


====
